---- MODULE Spec2Model ----
(***************************************************************************)
(* Model of tools/strip_comments.py: a script that makes a backup of a     *)
(* source file, strips // line comments with a five-state character        *)
(* scanner, trims trailing whitespace per line and overwrites the file.    *)
(*                                                                         *)
(* Characters and bytes are one-element strings.  The file holds bytes;    *)
(* every byte of the model's alphabet except xFF is an ASCII character, so *)
(* decoding maps a byte to the character of the same name.                 *)
(***************************************************************************)
EXTENDS Integers, Sequences, FiniteSets, TLC

VARIABLES
    pc,          \* position of the script: the statement about to run
    argv_given,  \* len(sys.argv) >= 2
    target,      \* the file at p: [exists, bytes]
    backup_file, \* the file at p + ".bak": [exists, bytes]
    orig,        \* the bytes the target held at invocation (history)
    exit_code,   \* process exit status, -1 while running
    s,           \* decoded text of the file
    i,           \* scan index (0-based, as in the script)
    state,       \* scan state
    out_chars,   \* output buffer of the scan
    new_s,       \* text after ''.join and after the post-pass
    hist,        \* history: for every consumed character of s, the step that consumed it
    runs,        \* number of invocations of the script on the path so far, this one included
    first        \* the bytes the target held before the first invocation (history)

vars == <<pc, argv_given, target, backup_file, orig, exit_code, s, i, state,
          out_chars, new_s, hist, runs, first>>

\* ------------------------------------------------------------------ bounds
\* An input file is the concatenation of at most MaxTokens text tokens (Spec) or
\* of at most MaxIOTokens byte tokens (SpecIO).
MaxTokens == 4
MaxIOTokens == 3
\* at most MaxFairTokens text tokens under SpecFair
MaxFairTokens == 3
\* at most MaxRuns invocations on files of at most MaxRerunTokens text tokens
\* under SpecRerun
MaxRerunTokens == 3
MaxRuns == 2

\* ------------------------------------------------------------------ alphabet
xFF == "xFF"    \* a byte that is no valid UTF-8 (0xFF)
SL == "/"
ST == "*"
DQ == "\""
SQ == "'"
BS == "\\"
NL == "\n"
CR == "\r"
FF == "\f"
SP == " "
LA == "a"

\* text tokens: the characters and two-character markers the scanner and the
\* post-pass tell apart
Tokens ==
    { <<SL>>, <<ST>>, <<DQ>>, <<SQ>>, <<BS>>, <<NL>>, <<SP>>, <<LA>>, <<FF>>,
      <<SL, SL>>, <<SL, ST>>, <<ST, SL>> }
\* byte tokens: also the bytes that decoding changes or rejects
IOTokens == Tokens \cup { <<CR>>, <<xFF>> }

RECURSIVE Flatten(_)
Flatten(ts) == IF ts = <<>> THEN <<>> ELSE Head(ts) \o Flatten(Tail(ts))


Absent == [exists |-> FALSE, bytes |-> <<>>]
File(b) == [exists |-> TRUE, bytes |-> b]

ProperPrefixes(x) == { SubSeq(x, 1, k) : k \in 0..(Len(x) - 1) }

\* ------------------------------------------------------------------ text helpers
\* open(..., 'r', encoding='utf-8') with newline=None: strict UTF-8 decoding and
\* universal newlines ("\r\n" and "\r" are read as "\n").
Decodable(b) == \A k \in 1..Len(b) : b[k] # xFF

RECURSIVE Decode(_)
Decode(b) ==
    IF b = <<>> THEN <<>>
    ELSE IF Head(b) = CR
         THEN IF Len(b) >= 2 /\ b[2] = NL
              THEN <<NL>> \o Decode(Tail(Tail(b)))
              ELSE <<NL>> \o Decode(Tail(b))
         ELSE <<Head(b)>> \o Decode(Tail(b))

\* open(..., 'w', encoding='utf-8'): "\n" is written as os.linesep, which is "\n"
\* on the POSIX platforms modelled here; every character is one ASCII byte.
Encode(t) == t

\* str.isspace() on the alphabet
IsSpace(c) == c \in {SP, NL, CR, FF}

\* mutant: only one trailing whitespace character is removed
rstrip_OnlyOnce(ln) ==
    IF ln # <<>> /\ IsSpace(ln[Len(ln)]) THEN SubSeq(ln, 1, Len(ln) - 1) ELSE ln

\* str.rstrip()
RECURSIVE rstrip(_)
rstrip(ln) ==
    IF ln # <<>> /\ IsSpace(ln[Len(ln)]) THEN rstrip(SubSeq(ln, 1, Len(ln) - 1)) ELSE ln

\* str.splitlines(): line boundaries are "\n", "\r", "\r\n", "\f" (and others that
\* are not in the alphabet); no empty last line after a final boundary.
LineBoundary(c) == c \in {NL, CR, FF}

RECURSIVE SplitFrom(_, _, _)
SplitFrom(x, k, cur) ==
    IF k > Len(x) THEN (IF cur = <<>> THEN <<>> ELSE <<cur>>)
    ELSE IF x[k] = CR /\ k + 1 <= Len(x) /\ x[k + 1] = NL
         THEN <<cur>> \o SplitFrom(x, k + 2, <<>>)
    ELSE IF LineBoundary(x[k])
         THEN <<cur>> \o SplitFrom(x, k + 1, <<>>)
    ELSE SplitFrom(x, k + 1, Append(cur, x[k]))

splitlines(x) == SplitFrom(x, 1, <<>>)

\* sep.join(lines)
RECURSIVE join(_, _)
join(sep, lines) ==
    IF lines = <<>> THEN <<>>
    ELSE IF Len(lines) = 1 THEN lines[1]
    ELSE lines[1] \o sep \o join(sep, Tail(lines))

\* mutant: the text after the last line break counts as a line even when it is
\* empty, as with split('\n')
PostPass_EmptyLastLine(x) ==
    LET lines == splitlines(x \o <<LA>>)
        new_lines == [k \in 1..Len(lines) |->
                         rstrip(IF k = Len(lines) THEN SubSeq(lines[k], 1, Len(lines[k]) - 1)
                                ELSE lines[k])]
    IN  join(<<NL>>, new_lines) \o <<NL>>

\* mutant: the final "\n" is not appended
PostPass_NoFinalNewline(x) ==
    LET new_lines == [k \in 1..Len(splitlines(x)) |-> rstrip(splitlines(x)[k])]
    IN  join(<<NL>>, new_lines)

\* new_lines = [ln.rstrip() for ln in new_s.splitlines()]; '\n'.join(new_lines) + '\n'
PostPass(x) ==
    LET new_lines == [k \in 1..Len(splitlines(x)) |-> rstrip(splitlines(x)[k])]
    IN  join(<<NL>>, new_lines) \o <<NL>>

\* ------------------------------------------------------------------ scan helpers
length == Len(s)
c == s[i + 1]                      \* s[i]
\* s.startswith(a + b, i)
startswith(a, b) == i + 2 <= length /\ s[i + 1] = a /\ s[i + 2] = b

\* history entries for a step that starts at i in state st, consumes n characters
\* and leaves the scan in state to
Consumed(st, to, n) == [k \in 1..n |-> [st |-> st, to |-> to, at |-> i]]

\* one loop iteration: append e to out_chars, advance by n, go to state to
Step(e, n, to) ==
    /\ out_chars' = out_chars \o e
    /\ i' = i + n
    /\ state' = to
    /\ hist' = hist \o Consumed(state, to, n)
    /\ UNCHANGED <<runs, first, pc, argv_given, target, backup_file, orig, exit_code, s, new_s>>

\* ------------------------------------------------------------------ initial state
\* the script is started without a path, with a path that names no file, or with
\* the path of a file that holds at most max tokens of toks
InitWith(toks, max) ==
    /\ pc = "args"
    /\ argv_given \in BOOLEAN
    /\ \/ target = Absent
       \/ /\ argv_given
          /\ \E n \in 0..max : \E ts \in [1..n -> toks] : target = File(Flatten(ts))
    /\ backup_file = Absent
    /\ orig = target.bytes
    /\ exit_code = -1
    /\ s = <<>>
    /\ i = 0
    /\ state = "normal"
    /\ out_chars = <<>>
    /\ new_s = <<>>
    /\ hist = <<>>
    /\ runs = 1
    /\ first = target.bytes

Init == InitWith(Tokens, MaxTokens)
InitIO == InitWith(IOTokens, MaxIOTokens)
InitFair == InitWith(Tokens, MaxFairTokens)
InitRerun == InitWith(Tokens, MaxRerunTokens)

\* ------------------------------------------------------------------ driver
Exit(code) ==
    /\ pc' = "exit"
    /\ exit_code' = code

\* if len(sys.argv) < 2: print usage; sys.exit(1)
CheckArgs ==
    /\ pc = "args"
    /\ IF argv_given
       THEN pc' = "exists" /\ UNCHANGED exit_code
       ELSE Exit(1)
    /\ UNCHANGED <<runs, first, argv_given, target, backup_file, orig, s, i, state, out_chars, new_s, hist>>

\* mutant: the existence check is missing
CheckExists_NoCheck ==
    /\ pc = "exists"
    /\ pc' = "backup" /\ UNCHANGED exit_code
    /\ UNCHANGED <<runs, first, argv_given, target, backup_file, orig, s, i, state, out_chars, new_s, hist>>

\* if not p.exists(): print; sys.exit(2)
CheckExists ==
    /\ pc = "exists"
    /\ IF target.exists
       THEN pc' = "backup" /\ UNCHANGED exit_code
       ELSE Exit(2)
    /\ UNCHANGED <<runs, first, argv_given, target, backup_file, orig, s, i, state, out_chars, new_s, hist>>

\* mutant: the backup is written from the decoded text instead of the raw bytes
Backup_FromText ==
    /\ pc = "backup"
    /\ backup_file' = File(Decode(target.bytes))
    /\ pc' = "read"
    /\ UNCHANGED <<runs, first, argv_given, target, orig, exit_code, s, i, state, out_chars, new_s, hist>>

\* mutant: an existing backup is kept
Backup_KeepExisting ==
    /\ pc = "backup"
    /\ backup_file' = (IF backup_file.exists THEN backup_file ELSE File(target.bytes))
    /\ pc' = "read"
    /\ UNCHANGED <<runs, first, argv_given, target, orig, exit_code, s, i, state, out_chars, new_s, hist>>

\* backup.write_bytes(p.read_bytes())
Backup ==
    /\ pc = "backup"
    /\ backup_file' = File(target.bytes)
    /\ pc' = "read"
    /\ UNCHANGED <<runs, first, argv_given, target, orig, exit_code, s, i, state, out_chars, new_s, hist>>

\* s = p.read_text(encoding='utf-8'), then the initialisation of the scan; an
\* invalid byte raises UnicodeDecodeError, which ends the process with status 1
ReadText ==
    /\ pc = "read"
    /\ IF Decodable(target.bytes)
       THEN /\ s' = Decode(target.bytes)
            /\ pc' = "scan"
            /\ UNCHANGED exit_code
       ELSE /\ Exit(1)
            /\ UNCHANGED s
    /\ out_chars' = <<>>
    /\ state' = "normal"
    /\ i' = 0
    /\ UNCHANGED <<runs, first, argv_given, target, backup_file, orig, new_s, hist>>

\* ------------------------------------------------------------------ scan loop
\* mutant: the "/*" opener advances the index by one only
ScanNormal_OpenerAdvancesOne ==
    /\ pc = "scan" /\ i < length /\ state = "normal"
    /\ IF startswith(SL, SL) THEN Step(<<>>, 2, "line_comment")
       ELSE IF startswith(SL, ST) THEN Step(<<SL>>, 1, "block_comment")
       ELSE IF c = DQ THEN Step(<<c>>, 1, "string")
       ELSE IF c = SQ THEN Step(<<c>>, 1, "char")
       ELSE Step(<<c>>, 1, "normal")

ScanNormal ==
    /\ pc = "scan" /\ i < length /\ state = "normal"
    /\ IF startswith(SL, SL) THEN Step(<<>>, 2, "line_comment")
       ELSE IF startswith(SL, ST) THEN Step(<<SL, ST>>, 2, "block_comment")
       ELSE IF c = DQ THEN Step(<<c>>, 1, "string")
       ELSE IF c = SQ THEN Step(<<c>>, 1, "char")
       ELSE Step(<<c>>, 1, "normal")

\* mutant: the newline that ends a line comment is discarded with the comment
ScanLineComment_DropsNewline ==
    /\ pc = "scan" /\ i < length /\ state = "line_comment"
    /\ IF c = NL THEN Step(<<>>, 1, "normal")
       ELSE Step(<<>>, 1, "line_comment")

ScanLineComment ==
    /\ pc = "scan" /\ i < length /\ state = "line_comment"
    /\ IF c = NL THEN Step(<<c>>, 1, "normal")
       ELSE Step(<<>>, 1, "line_comment")

\* mutant: a "/*" inside a block comment is consumed as one two-character unit
ScanBlockComment_SkipsOpener ==
    /\ pc = "scan" /\ i < length /\ state = "block_comment"
    /\ IF startswith(ST, SL) THEN Step(<<ST, SL>>, 2, "normal")
       ELSE IF startswith(SL, ST) THEN Step(<<SL, ST>>, 2, "block_comment")
       ELSE Step(<<c>>, 1, "block_comment")

ScanBlockComment ==
    /\ pc = "scan" /\ i < length /\ state = "block_comment"
    /\ IF startswith(ST, SL) THEN Step(<<ST, SL>>, 2, "normal")
       ELSE Step(<<c>>, 1, "block_comment")

\* mutant: a backslash is consumed alone, so the character after it is tested as
\* a closing quote
ScanString_NoEscape ==
    /\ pc = "scan" /\ i < length /\ state = "string"
    /\ IF c = DQ THEN Step(<<c>>, 1, "normal")
       ELSE Step(<<c>>, 1, "string")

\* mutant: the escape branch does not test that a next character exists
ScanString_EscapeUnchecked ==
    /\ pc = "scan" /\ i < length /\ state = "string"
    /\ IF c = BS
       THEN Step(IF i + 1 < length THEN <<c, s[i + 2]>> ELSE <<c>>, 2, "string")
       ELSE IF c = DQ THEN Step(<<c>>, 1, "normal")
       ELSE Step(<<c>>, 1, "string")

ScanString ==
    /\ pc = "scan" /\ i < length /\ state = "string"
    /\ IF c = BS /\ i + 1 < length THEN Step(<<c, s[i + 2]>>, 2, "string")
       ELSE IF c = DQ THEN Step(<<c>>, 1, "normal")
       ELSE Step(<<c>>, 1, "string")

\* mutant: a character literal is also closed by a double quote
ScanChar_ClosesOnDoubleQuote ==
    /\ pc = "scan" /\ i < length /\ state = "char"
    /\ IF c = BS /\ i + 1 < length THEN Step(<<c, s[i + 2]>>, 2, "char")
       ELSE IF c = SQ \/ c = DQ THEN Step(<<c>>, 1, "normal")
       ELSE Step(<<c>>, 1, "char")

ScanChar ==
    /\ pc = "scan" /\ i < length /\ state = "char"
    /\ IF c = BS /\ i + 1 < length THEN Step(<<c, s[i + 2]>>, 2, "char")
       ELSE IF c = SQ THEN Step(<<c>>, 1, "normal")
       ELSE Step(<<c>>, 1, "char")

\* ------------------------------------------------------------------ post-pass and write
\* loop exit; new_s = ''.join(out_chars); the rstrip of every line; the join
PostProcess ==
    /\ pc = "scan" /\ ~(i < length)
    /\ new_s' = PostPass(out_chars)
    /\ pc' = "write"
    /\ UNCHANGED <<runs, first, argv_given, target, backup_file, orig, exit_code, s, i, state, out_chars, hist>>

\* p.write_text(new_s, encoding='utf-8'); print("Done."); exit status 0
WriteText ==
    /\ pc = "write"
    /\ target' = File(Encode(new_s))
    /\ pc' = "done"
    /\ exit_code' = 0
    /\ UNCHANGED <<runs, first, argv_given, backup_file, orig, s, i, state, out_chars, new_s, hist>>

\* a further invocation of the script on the same path after a successful one: a
\* new process, the two files as the last invocation left them
Reinvoke ==
    /\ pc = "done" /\ runs < MaxRuns
    /\ runs' = runs + 1
    /\ pc' = "args"
    /\ exit_code' = -1
    /\ orig' = target.bytes
    /\ s' = <<>>
    /\ i' = 0
    /\ state' = "normal"
    /\ out_chars' = <<>>
    /\ new_s' = <<>>
    /\ hist' = <<>>
    /\ UNCHANGED <<argv_given, target, backup_file, first>>

\* ------------------------------------------------------------------ I/O faults
\* The script catches no exception: an OSError raised by a file operation ends the
\* process with status 1.

\* backup.write_bytes(p.read_bytes()) raising: in p.read_bytes() or in the open of
\* the backup (nothing written), or in the write after the open has truncated the
\* backup (a proper prefix is on disk)
BackupFails ==
    /\ pc = "backup"
    /\ \/ UNCHANGED backup_file
       \/ \E b \in ProperPrefixes(target.bytes) : backup_file' = File(b)
    /\ Exit(1)
    /\ UNCHANGED <<runs, first, argv_given, target, orig, s, i, state, out_chars, new_s, hist>>

\* p.read_text(...) raising an OSError
ReadTextFails ==
    /\ pc = "read"
    /\ Exit(1)
    /\ UNCHANGED <<runs, first, argv_given, target, backup_file, orig, s, i, state, out_chars, new_s, hist>>

\* p.write_text(...) raising: in the open (the target is untouched) or in the write
\* after the open has truncated the target (a proper prefix of the new content is
\* on disk)
WriteTextFails ==
    /\ pc = "write"
    /\ \/ UNCHANGED target
       \/ \E b \in ProperPrefixes(Encode(new_s)) : target' = File(b)
    /\ Exit(1)
    /\ UNCHANGED <<runs, first, argv_given, backup_file, orig, s, i, state, out_chars, new_s, hist>>

Next ==
    \/ CheckArgs
    \/ CheckExists
    \/ Backup
    \/ ReadText
    \/ ScanNormal
    \/ ScanLineComment
    \/ ScanBlockComment
    \/ ScanString
    \/ ScanChar
    \/ PostProcess
    \/ WriteText

\* fault-free runs over text files
Spec == Init /\ [][Next]_vars

\* the same runs of a process that is never suspended for ever: the script is one
\* sequential program, so a statement that can run does run
SpecFair == InitFair /\ [][Next]_vars /\ WF_vars(Next)

NextRerun ==
    \/ CheckArgs
    \/ CheckExists
    \/ Backup
    \/ ReadText
    \/ ScanNormal
    \/ ScanLineComment
    \/ ScanBlockComment
    \/ ScanString
    \/ ScanChar
    \/ PostProcess
    \/ WriteText
    \/ Reinvoke

\* repeated fault-free invocations on the same path
SpecRerun == InitRerun /\ [][NextRerun]_vars

NextIO ==
    \/ CheckArgs
    \/ CheckExists
    \/ Backup
    \/ BackupFails
    \/ ReadText
    \/ ReadTextFails
    \/ ScanNormal
    \/ ScanLineComment
    \/ ScanBlockComment
    \/ ScanString
    \/ ScanChar
    \/ PostProcess
    \/ WriteText
    \/ WriteTextFails

\* runs with I/O faults over byte files
SpecIO == InitIO /\ [][NextIO]_vars

\* ------------------------------------------------------------------ claim helpers
\* x occurs in y as a contiguous run
Occurs(x, y) == \E k \in 0..(Len(y) - Len(x)) : SubSeq(y, k + 1, k + Len(x)) = x

\* position k (1-based) of s was consumed as part of a "//" seen in normal state
InMarker(k) ==
    LET j == hist[k].at
    IN  hist[k].st = "normal" /\ j + 2 <= Len(s) /\ s[j + 1] = SL /\ s[j + 2] = SL

\* the characters the claimed rule discards
Discarded(k) == InMarker(k) \/ (hist[k].st = "line_comment" /\ s[k] # NL)

\* the first n characters of s without the discarded ones, in input order
RECURSIVE KeptSeq(_)
KeptSeq(n) ==
    IF n = 0 THEN <<>>
    ELSE KeptSeq(n - 1) \o (IF Discarded(n) THEN <<>> ELSE <<s[n]>>)

\* s[a..b] was scanned as one closed literal of state st with quote q: the opening
\* quote in normal state, the closing quote back to normal, everything between in st
Literal(a, b, st, q) ==
    /\ 1 <= a /\ a < b /\ b <= Len(hist)
    /\ s[a] = q /\ hist[a].st = "normal" /\ hist[a].to = st
    /\ s[b] = q /\ hist[b].st = st /\ hist[b].to = "normal"
    /\ \A k \in (a + 1)..(b - 1) : hist[k].st = st /\ hist[k].to = st

\* s[a..b] was scanned as one closed block comment
BlockComment(a, b) ==
    /\ 1 <= a /\ a + 3 <= b /\ b <= Len(hist)
    /\ s[a] = SL /\ s[a + 1] = ST /\ hist[a].st = "normal" /\ hist[a].to = "block_comment"
    /\ hist[a + 1].at = a - 1
    /\ s[b - 1] = ST /\ s[b] = SL /\ hist[b].st = "block_comment" /\ hist[b].to = "normal"
    /\ hist[b - 1].at = b - 2
    /\ \A k \in (a + 2)..(b - 2) : hist[k].st = "block_comment" /\ hist[k].to = "block_comment"

\* "//" lies strictly inside s[a..b], between delimiters of width w
MarkerInside(a, b, w) == \E k \in (a + w)..(b - w - 1) : s[k] = SL /\ s[k + 1] = SL

\* number of "\n" in x
RECURSIVE CountNL(_)
CountNL(x) == IF x = <<>> THEN 0 ELSE (IF Head(x) = NL THEN 1 ELSE 0) + CountNL(Tail(x))

\* number of "\n" at the end of x
RECURSIVE TrailingNL(_)
TrailingNL(x) ==
    IF x # <<>> /\ x[Len(x)] = NL THEN 1 + TrailingNL(SubSeq(x, 1, Len(x) - 1)) ELSE 0

\* number of line breaks in the whitespace-only tail of x
RECURSIVE TailBreaks(_)
TailBreaks(x) ==
    IF x # <<>> /\ IsSpace(x[Len(x)])
    THEN (IF LineBoundary(x[Len(x)]) THEN 1 ELSE 0) + TailBreaks(SubSeq(x, 1, Len(x) - 1))
    ELSE 0

EndsWithBreak(x) == x # <<>> /\ LineBoundary(x[Len(x)])

\* the normalisation the specification describes: lines are split on "\n" only,
\* trailing whitespace is removed from each, and the text ends with a newline that
\* is added only when missing
RECURSIVE NormFrom(_, _, _)
NormFrom(x, k, cur) ==
    IF k > Len(x) THEN <<>>
    ELSE IF x[k] = NL THEN rstrip(cur) \o <<NL>> \o NormFrom(x, k + 1, <<>>)
    ELSE NormFrom(x, k + 1, Append(cur, x[k]))

RefNorm(x) ==
    NormFrom(IF x # <<>> /\ x[Len(x)] = NL THEN x ELSE x \o <<NL>>, 1, <<>>)

\* the scan never was in, and never entered, line_comment state
NoLineComment == \A k \in 1..Len(hist) : hist[k].st # "line_comment" /\ hist[k].to # "line_comment"

\* ------------------------------------------------------------------ claims
\* C1: during and after the scan, the output buffer is exactly the consumed input
\* without the characters of a "//" marker seen in normal state and without the
\* non-newline characters consumed in line_comment state: every other consumed
\* character is in the buffer once, in input order.
C1_ConsumedCopiedOrDiscarded ==
    pc \in {"scan", "write", "done"} =>
        /\ Len(hist) = i
        /\ out_chars = KeptSeq(i)

\* a finished scan that discarded a marker and a comment character and copied the
\* newline that ended the comment
C1_Witness ==
    /\ pc = "done"
    /\ \E k \in 1..Len(hist) : InMarker(k)
    /\ \E k \in 1..Len(hist) : hist[k].st = "line_comment" /\ s[k] # NL
    /\ \E k \in 1..Len(hist) : hist[k].st = "line_comment" /\ s[k] = NL
    /\ out_chars # <<>>

\* C2: a closed string or character literal that contains "//" is in the final
\* output unmodified, delimiters included.
C2_LiteralPreserved ==
    pc = "done" =>
        \A a, b \in 1..Len(s) :
            ((Literal(a, b, "string", DQ) \/ Literal(a, b, "char", SQ)) /\ MarkerInside(a, b, 1))
                => Occurs(SubSeq(s, a, b), target.bytes)

\* C3: a closed block comment that contains "//" is in the final output verbatim,
\* "/*" and "*/" included.
C3_BlockCommentPreserved ==
    pc = "done" =>
        \A a, b \in 1..Len(s) :
            (BlockComment(a, b) /\ MarkerInside(a, b, 2))
                => Occurs(SubSeq(s, a, b), target.bytes)

\* C4: in string or char state a backslash with a following character is consumed
\* with that character in one step: both are emitted and the state does not change,
\* whatever the second character is.
C4_EscapePairAtomic ==
    [][(pc = "scan" /\ i + 1 < length /\ state \in {"string", "char"} /\ s[i + 1] = BS)
          => (i' = i + 2 /\ out_chars' = out_chars \o <<s[i + 1], s[i + 2]>> /\ state' = state)]_vars

\* an escaped double quote has just been consumed inside a string and the scan is
\* still in string state
C4_Witness ==
    /\ pc = "scan" /\ state = "string" /\ i >= 2
    /\ hist[i].st = "string" /\ hist[i].at = i - 2
    /\ s[i - 1] = BS /\ s[i] = DQ

C6_LineStructure ==
    pc = "done" =>
        /\ CountNL(target.bytes) >= CountNL(s)
        /\ CountNL(target.bytes) - CountNL(s) <= 1

\* C7: whenever the script is at or past the overwrite, or the target no longer
\* holds its original bytes, the backup exists and holds exactly the bytes the
\* target held at invocation.
C7_BackupBeforeOverwrite ==
    (pc \in {"write", "done"} \/ target.bytes # orig) => backup_file = File(orig)

\* a finished run on a file whose bytes differ from its decoded text: the target
\* was overwritten and the backup holds the original bytes
C7_Witness ==
    /\ pc = "done"
    /\ target.bytes # orig
    /\ Decode(orig) # orig
    /\ backup_file = File(orig)

\* C8: when the scan never enters line_comment state, the final output is the
\* input with trailing whitespace removed from each line and a final newline
\* present once.
C8_NoCommentFixedPoint ==
    (pc = "done" /\ NoLineComment) => target.bytes = RefNorm(s)

\* C9: without a path argument the exit status is 1, with a path that does not
\* exist it is 2, and in both cases no backup exists and no file was written; a run
\* that completed the write has exit status 0.
C9_ErrorExits ==
    /\ (pc = "exit" /\ ~argv_given) =>
           (exit_code = 1 /\ backup_file = Absent /\ target = Absent)
    /\ (pc = "exit" /\ argv_given /\ ~target.exists) =>
           (exit_code = 2 /\ backup_file = Absent)
    /\ (pc = "done") => (exit_code = 0 /\ target = File(Encode(new_s)))
    /\ (exit_code = 0) => pc = "done"

\* the script has exited on a path that does not exist
C9_Witness ==
    /\ pc = "exit" /\ argv_given /\ ~target.exists
    /\ exit_code = 2 /\ backup_file = Absent

\* C10: a run that aborts leaves the target holding its original content, and a
\* backup that was written before the abort holds the original bytes.
C10_NoPartialSuccess ==
    [][(pc' = "exit") =>
          /\ target' = (IF orig = <<>> /\ ~target.exists THEN Absent ELSE File(orig))
          /\ (pc \in {"read", "scan", "write"}) => backup_file' = File(orig)]_vars

\* C11: the scan ends on every input, well formed or not: every loop iteration
\* advances the index by 1 or 2, the index never exceeds the length of the input,
\* the loop is left with the index equal to the length, in whichever state, and the
\* process then runs to its end.
C11_ScanTerminates ==
    /\ [](pc \in {"scan", "write", "done"} => i <= length)
    /\ [](pc \in {"write", "done"} => i = length)
    /\ [][(pc = "scan" /\ i < length) => (pc' = "scan" /\ i' \in {i + 1, i + 2})]_vars
    /\ [](pc = "scan" => <>(pc = "write"))

\* the loop was left inside a string literal whose last character is a lone
\* backslash
C11_Witness ==
    /\ pc = "write" /\ state = "string" /\ i = length
    /\ length >= 2 /\ s[length] = BS /\ hist[length].at = length - 1

\* C12: the whole transformation is idempotent: an invocation on the output of an
\* earlier invocation writes back the text it read.
C12_Idempotent ==
    (pc = "done" /\ runs >= 2) => target.bytes = orig

\* a second invocation has finished on a file whose first invocation removed a
\* comment and trimmed whitespace
C12_Witness ==
    /\ pc = "done" /\ runs = 2
    /\ first # orig
    /\ \E k \in 1..(Len(first) - 1) : first[k] = SL /\ first[k + 1] = SL
    /\ target.bytes = orig

\* the transitions the claim lists, each with its trigger at the scan position
Transition(from, to) ==
    \/ from = "normal" /\ to = "line_comment" /\ startswith(SL, SL) /\ i' = i + 2
    \/ from = "normal" /\ to = "block_comment" /\ startswith(SL, ST) /\ i' = i + 2
    \/ from = "normal" /\ to = "string" /\ c = DQ /\ i' = i + 1
    \/ from = "normal" /\ to = "char" /\ c = SQ /\ i' = i + 1
    \/ from = "line_comment" /\ to = "normal" /\ c = NL /\ i' = i + 1
    \/ from = "block_comment" /\ to = "normal" /\ startswith(ST, SL) /\ i' = i + 2
    \/ from = "string" /\ to = "normal" /\ c = DQ /\ i' = i + 1
    \/ from = "char" /\ to = "normal" /\ c = SQ /\ i' = i + 1

\* C13: the scan state is always one of the five states, is normal when the scan
\* starts, and changes only by the eight listed transitions, each on its trigger.
C13_StateTransitions ==
    /\ [](state \in {"normal", "line_comment", "block_comment", "string", "char"})
    /\ []((pc = "scan" /\ i = 0) => state = "normal")
    /\ [][state' # state => (pc = "scan" /\ i < length /\ Transition(state, state'))]_vars

\* a string literal that holds a newline and a single quote was closed by its
\* double quote only
C13_Witness ==
    /\ pc = "write" /\ state = "normal"
    /\ \E a, b \in 1..Len(s) :
           /\ Literal(a, b, "string", DQ)
           /\ \E k \in (a + 1)..(b - 1) : s[k] = NL
           /\ \E k \in (a + 1)..(b - 1) : s[k] = SQ

\* C14: block comments do not nest: in block_comment state only "*/" changes the
\* state, to normal, whatever was opened before; any other character, the "/" and
\* "*" of a "/*" included, is emitted alone and the state stays block_comment.
C14_NoNesting ==
    [][(pc = "scan" /\ i < length /\ state = "block_comment") =>
          IF startswith(ST, SL)
          THEN state' = "normal" /\ i' = i + 2 /\ out_chars' = out_chars \o <<ST, SL>>
          ELSE state' = "block_comment" /\ i' = i + 1 /\ out_chars' = out_chars \o <<c>>]_vars

\* the input /*/**/// was scanned: the first "*/" closed the comment and the "//"
\* after it was stripped in normal state
C14_Witness ==
    /\ pc = "write"
    /\ s = <<SL, ST, SL, ST, ST, SL, SL, SL>>
    /\ out_chars = <<SL, ST, SL, ST, ST, SL>>
    /\ hist[7].st = "normal" /\ hist[7].to = "line_comment"

\* C15: the scan emits every newline it consumes, in every state: the output
\* buffer holds as many newlines as the consumed part of the input.
C15_NewlinesKept ==
    pc \in {"scan", "write", "done"} => CountNL(out_chars) = CountNL(SubSeq(s, 1, i))

\* a line comment was ended by a newline, which is in the output buffer
C15_Witness ==
    /\ pc = "write"
    /\ \E k \in 2..Len(hist) :
           hist[k].st = "line_comment" /\ s[k] = NL /\ hist[k - 1].st = "line_comment"
    /\ CountNL(out_chars) >= 1

\* no "\n" of x is preceded by a whitespace character other than "\n", and x ends
\* with "\n": no line of x ends with whitespace
NoTrailingSpace(x) ==
    /\ x # <<>> /\ x[Len(x)] = NL
    /\ \A k \in 1..Len(x) : IsSpace(x[k]) => x[k] \in {NL, SP}
    /\ \A k \in 2..Len(x) : x[k] = NL => x[k - 1] # SP

C17_BackupLosesOriginal ==
    pc = "done" =>
        /\ backup_file = File(orig)
        /\ runs >= 2 => (backup_file.bytes # first /\ target.bytes # first)

\* C17 (amended): after n >= 1 successful invocations the backup holds the content
\* the target had just before the last one; for n >= 2 that is already-stripped
\* text, equal to the target, and the content from before the first invocation is
\* in neither file when the first invocation changed it.
C17_BackupOfLastRun ==
    pc = "done" =>
        /\ backup_file = File(orig)
        /\ runs >= 2 =>
               /\ backup_file.bytes = target.bytes
               /\ orig # first => (backup_file.bytes # first /\ target.bytes # first)

\* a second invocation has finished on a file that the first one changed: the
\* backup holds the stripped text and the first content is gone
C17_Witness ==
    /\ pc = "done" /\ runs = 2
    /\ orig # first
    /\ backup_file = File(orig)
    /\ target.bytes # first

\* s[k], s[k+1] is a "/*" that opened a block comment
Opener(k) ==
    /\ k + 1 <= Len(hist)
    /\ s[k] = SL /\ s[k + 1] = ST
    /\ hist[k].st = "normal" /\ hist[k].to = "block_comment" /\ hist[k].at = k - 1

\* C18: markers do not overlap and "//" is taken first: the "*" of an opening "/*"
\* is consumed with its "/" and a "/" right after it does not close the comment;
\* a closing "*/" lies wholly inside the comment; in normal state "//*" starts a
\* line comment and its "*" is consumed inside that comment.
C18_NoOverlap ==
    pc \in {"scan", "write", "done"} =>
        /\ Len(hist) = i
        /\ \A k \in 1..Len(hist) :
               /\ Opener(k) =>
                      /\ hist[k + 1].at = k - 1 /\ hist[k + 1].st = "normal"
                      /\ (k + 2 <= Len(hist) /\ s[k + 2] = SL) =>
                             (hist[k + 2].st = "block_comment" /\ hist[k + 2].to = "block_comment")
               /\ (hist[k].st = "block_comment" /\ hist[k].to = "normal") =>
                      \E j \in {k, k - 1} :
                          /\ j >= 1 /\ j + 1 <= Len(hist)
                          /\ s[j] = ST /\ s[j + 1] = SL
                          /\ hist[j].at = j - 1 /\ hist[j + 1].at = j - 1
                          /\ hist[j].st = "block_comment" /\ hist[j + 1].st = "block_comment"
               /\ (k + 2 <= Len(hist) /\ hist[k].st = "normal" /\ hist[k].at = k - 1
                   /\ s[k] = SL /\ s[k + 1] = SL /\ s[k + 2] = ST) =>
                      /\ hist[k].to = "line_comment"
                      /\ hist[k + 1].at = k - 1
                      /\ hist[k + 2].st = "line_comment"

\* the input /*/ was scanned to its end and the block comment is still open
C18_Witness ==
    /\ pc = "write" /\ state = "block_comment"
    /\ Len(s) >= 3 /\ Opener(Len(s) - 2) /\ s[Len(s)] = SL

TypeOK ==
    /\ pc \in {"args", "exists", "backup", "read", "scan", "write", "done", "exit"}
    /\ state \in {"normal", "line_comment", "block_comment", "string", "char"}
    /\ i \in 0..length
====
